---- MODULE Spec2Model ----
(***************************************************************************)
(* dynamic_reload: registration and hot reload of shared libraries.        *)
(*                                                                         *)
(* The host thread owns a DynamicReload value (libs, shadow_dir,           *)
(* search_paths, the receiving end of the watcher channel) and calls       *)
(* add_library and update on it.  The notify watcher thread only sends     *)
(* DebouncedEvents into the channel.  The file system and the clock are    *)
(* the environment.                                                        *)
(***************************************************************************)
EXTENDS Integers, Sequences, FiniteSets, TLC

\* ------------------------------------------------------------------ bounds

\* Most Modules the host registers at one time.
MaxLibs == 2
\* Most file-system operations (writes, chmods) the environment performs.
MaxMods == 2
\* Latest reading of the system clock, in milliseconds.
MaxMillis == 1

\* ------------------------------------------------------- program constants

\* try_copy: for _ in 0..10
CopyAttempts == 10

\* ------------------------------------------------------------------ values

\* Option<T>: None is the empty sequence, Some(v) a one-element sequence.
None == <<>>
Some(v) == <<v>>
IsSome(o) == Len(o) = 1
Unwrap(o) == o[1]

Range(s) == {s[k] : k \in 1..Len(s)}

\* A directory is the sequence of its components; "/" leads an absolute one.
\* The empty sequence is the relative directory "" (the working directory).
CurDir == <<>>
RootDir == <<"/">>
SearchDir == <<"/", "s">>
OtherDir == <<"/", "o">>
ExeParent == <<"/", "e">>
ExeDir == <<"/", "e", "b">>
ShadowDir == <<"/", "t", "shadow_libs">>
\* The root ShadowDir is made in, and a root no directory can be made in.
TmpRoot == <<"/", "t">>
NoSuchDir == <<"_no_such_dir">>

\* A file name is a sequence of text pieces, so that formatting concatenates.
NameX == <<"x">>
NameY == <<"y">>

\* A path: directory plus file name (PathBuf).
Join(dir, name) == [dir |-> dir, name |-> name]
FileName(path) == path.name
Parent(path) == path.dir

\* The running executable (env::current_exe).
ExePath == Join(ExeDir, <<"host">>)

\* get_dynamiclib_name on the unix targets: "lib{}.so".
GetDynamiclibName(name) == <<"lib">> \o name \o <<".so">>

\* get_library_name
GetLibraryName(name, name_format) ==
    IF name_format = "Yes" THEN GetDynamiclibName(name) ELSE name

\* The files the environment may create or rewrite.
FileX1 == Join(SearchDir, GetDynamiclibName(NameX))
FileX2 == Join(ExeParent, GetDynamiclibName(NameX))
FileY == Join(CurDir, NameY)
Files == {FileX1, FileX2, FileY}

\* The files other processes write while the host runs.
Writable == {FileX1, FileX2}

\* What another process writes: a loadable library, or a non-empty file
\* that is no library.  A path holds one of these, "empty" (a file of size
\* 0), "dir" (a directory) or nothing ("absent").
Contents == {"lib", "junk"}

\* Names and formats the host passes to add_library.
Names == {NameX, NameY}
Formats == {"Yes", "No"}

\* DebouncedEvent kinds the watcher sends.
ReloadKinds == {"NoticeWrite", "Write", "Create"}

VARIABLES
    libs,          \* DynamicReload.libs: Vec<Arc<Lib>>
    shadow_dir,    \* DynamicReload.shadow_dir: Option<TempDir>
    search_paths,  \* DynamicReload.search_paths: Vec<PathBuf>
    watcher,       \* DynamicReload.watcher is Some
    watches,       \* directories the watcher watches
    watch_recv,    \* events sent by the watcher and not yet received
    debouncing,    \* the watcher's debounce table: path -> event to send
    fs,            \* the file system: path -> content, "absent" if none
    nextId,        \* handles handed out by Library::new so far
    pc,            \* where the host thread is
    cur,           \* reload_libs: file_path
    idx,           \* reload_libs: the loop index i, counted from 1
    calls,         \* the update_call invocations of the running update call
    result,        \* what the last add_library call got and returned
    mods,          \* file-system operations of other processes so far
    written,       \* the watched files other processes have written so far
    fired,         \* how often Before and After have been invoked so far
    lost,          \* original paths of the Modules a failed reload removed
    retry,         \* the notification being processed is for a path in lost
    dupAdded,      \* add_library has registered a file name already registered
    args,          \* what new was called with: the Search and the shadow dir
    held,          \* handles of the Modules the host holds a reference to
    live,          \* handles Library::new returned that are not closed yet
    snap           \* the Registry and the callback count when reload_libs began

vars == <<libs, shadow_dir, search_paths, watcher, watches, watch_recv,
          debouncing, fs, nextId, pc, cur, idx, calls, result, mods,
          written, fired, lost, retry, dupAdded, args, held, live, snap>>


\* ------------------------------------------------------------- file system

\* fs::metadata(path): the content of the file at path, "absent" if none.
FsAt(path) == IF path \in DOMAIN fs THEN fs[path] ELSE "absent"

\* is_file: Some(path) when metadata succeeds and names a regular file.
IsFile(path) == IF FsAt(path) \notin {"absent", "dir"} THEN Some(path) ELSE None

\* Path::parent of a directory: None for "" and for "/".
DirParent(dir) ==
    IF dir = CurDir \/ dir = RootDir
    THEN None
    ELSE Some(SubSeq(dir, 1, Len(dir) - 1))

\* get_parent_dir of a file path: its directory.
GetParentDir(path) == Some(Parent(path))

\* ------------------------------------------------------------ Path Resolver

\* search_current_dir: the bare name, relative to the working directory.
SearchCurrentDir(lib_name) == IsFile(Join(CurDir, lib_name))

\* search_relative_paths: the first search path that holds the file.
RECURSIVE SearchRelativeFrom(_, _)
SearchRelativeFrom(k, lib_name) ==
    IF k > Len(search_paths)
    THEN None
    ELSE IF IsSome(IsFile(Join(search_paths[k], lib_name)))
         THEN Some(Join(search_paths[k], lib_name))
         ELSE SearchRelativeFrom(k + 1, lib_name)

SearchRelativePaths(lib_name) == SearchRelativeFrom(1, lib_name)

\* search_backwards_from_file, as the match on get_parent_dir's result:
\* look in the parent, then recurse from the parent.
RECURSIVE SearchBackwardsIn(_, _)
SearchBackwardsIn(parent, lib_name) ==
    IF ~IsSome(parent)
    THEN None
    ELSE LET p == Unwrap(parent)
             new_path == Join(p, lib_name)
         IN  IF IsSome(IsFile(new_path))
             THEN Some(new_path)
             ELSE SearchBackwardsIn(DirParent(p), lib_name)

SearchBackwardsFromFile(path, lib_name) ==
    SearchBackwardsIn(GetParentDir(path), lib_name)

\* search_backwards_from_exe
SearchBackwardsFromExe(lib_name) == SearchBackwardsFromFile(ExePath, lib_name)

\* search_dirs that looks into the search paths before the working directory.
SearchDirsPathsFirst(name, name_format) ==
    LET lib_name == GetLibraryName(name, name_format)
    IN  IF IsSome(SearchRelativePaths(lib_name))
        THEN SearchRelativePaths(lib_name)
        ELSE IF IsSome(SearchCurrentDir(lib_name))
             THEN SearchCurrentDir(lib_name)
             ELSE SearchBackwardsFromExe(lib_name)

\* search_dirs: working directory, search paths, then backwards from the exe.
SearchDirs(name, name_format) ==
    LET lib_name == GetLibraryName(name, name_format)
    IN  IF IsSome(SearchCurrentDir(lib_name))
        THEN SearchCurrentDir(lib_name)
        ELSE IF IsSome(SearchRelativePaths(lib_name))
             THEN SearchRelativePaths(lib_name)
             ELSE SearchBackwardsFromExe(lib_name)

\* ------------------------------------------------------------------ errors

\* Error::Find(name), Error::Load(_), Error::CopyTimeOut(src, dest)
ErrFind(name) ==
    [tag |-> "Find", name |-> Some(name), src |-> None, dest |-> None]
ErrLoad ==
    [tag |-> "Load", name |-> None, src |-> None, dest |-> None]
ErrCopyTimeOut(src, dest) ==
    [tag |-> "CopyTimeOut", name |-> None, src |-> Some(src), dest |-> Some(dest)]

\* -------------------------------------------------------------- Copy Stager

\* What SystemTime::now may read.  It is the wall clock: two readings may be
\* equal, and a later one may be smaller.
Readings == 0..MaxMillis

\* format_filename (timestamps on): "{millis}_{filename}" in the shadow dir,
\* ts being the clock's reading.
FormatFilename(sd, full_path, ts) ==
    Join(sd, <<ToString(ts), "_">> \o FileName(full_path))

\* What keeps the first n attempts of try_copy from copying: the source is
\* "locked" (metadata succeeds with len > 0, fs::copy fails), "unreadable"
\* (metadata fails) or "empty" (len is 0).
Hold(n, as) == [n |-> n, as |-> as]
Hindrances == {"locked", "unreadable", "empty"}

\* Another process holds the source locked: not at all, until just before
\* the last attempt, or past the last attempt.
Holds == {Hold(n, "locked") : n \in {0, CopyAttempts - 1, CopyAttempts}}

\* What attempt k of try_copy finds at src.
Observe(src, k, hold) == IF k <= hold.n THEN hold.as ELSE FsAt(src)

\* try_copy that gives up one attempt early.
RECURSIVE TryCopyFromShort(_, _, _, _)
TryCopyFromShort(k, src, dest, hold) ==
    IF k > CopyAttempts - 1
    THEN [ok |-> FALSE, sleeps |-> k - 1, copies |-> 0, content |-> "absent",
          err |-> Some([tag |-> "CopyTimeOut", name |-> None,
                        src |-> Some(src), dest |-> Some(dest)])]
    ELSE LET seen == Observe(src, k, hold)
         IN  IF seen \in {"absent", "unreadable", "empty"}
             THEN TryCopyFromShort(k + 1, src, dest, hold)
             ELSE IF seen \notin {"locked", "dir"}
             THEN [ok |-> TRUE, sleeps |-> k - 1, copies |-> 1,
                   content |-> seen, err |-> None]
             ELSE LET rest == TryCopyFromShort(k + 1, src, dest, hold)
                  IN  [rest EXCEPT !.copies = @ + 1]

\* try_copy from attempt k on: metadata must succeed with len > 0 and the
\* copy must succeed (that of a locked file or of a directory does not);
\* otherwise sleep and try again, 10 attempts in all, then CopyTimeOut.  The
\* result also tells the sleeps made, the fs::copy calls made and what was
\* copied.
RECURSIVE TryCopyFrom(_, _, _, _)
TryCopyFrom(k, src, dest, hold) ==
    IF k > CopyAttempts
    THEN [ok |-> FALSE, sleeps |-> k - 1, copies |-> 0, content |-> "absent",
          err |-> Some(ErrCopyTimeOut(src, dest))]
    ELSE LET seen == Observe(src, k, hold)
         IN  IF seen \in {"absent", "unreadable", "empty"}
             THEN TryCopyFrom(k + 1, src, dest, hold)
             ELSE IF seen \notin {"locked", "dir"}
             THEN [ok |-> TRUE, sleeps |-> k - 1, copies |-> 1,
                   content |-> seen, err |-> None]
             ELSE LET rest == TryCopyFrom(k + 1, src, dest, hold)
                  IN  [rest EXCEPT !.copies = @ + 1]

TryCopy(src, dest, hold) == TryCopyFrom(1, src, dest, hold)

\* ------------------------------------------------------------ Module Loader

\* Result<Arc<Lib>>
Ok(lib) == [ok |-> TRUE, lib |-> Some(lib), err |-> None]
Err(e) == [ok |-> FALSE, lib |-> None, err |-> Some(e)]

\* init_library that takes Library::new to succeed on any file.
InitLibraryNeverFails(org_path, path, content) ==
    Ok([id |-> nextId + 1, original_path |-> org_path, loaded_path |-> path])

\* init_library: Library::new accepts only a loadable file.
InitLibrary(org_path, path, content) ==
    IF content = "lib"
    THEN Ok([id |-> nextId + 1, original_path |-> org_path, loaded_path |-> path])
    ELSE Err(ErrLoad)

\* load_library: stage into the shadow dir when there is one, then load.
LoadLibrary(full_path, hold, ts) ==
    IF IsSome(shadow_dir)
    THEN LET path == FormatFilename(Unwrap(shadow_dir), full_path, ts)
             copy == TryCopy(full_path, path, hold)
         IN  IF ~copy.ok
             THEN Err(Unwrap(copy.err))
             ELSE InitLibrary(Some(full_path), path, copy.content)
    ELSE InitLibrary(None, full_path, FsAt(full_path))

\* try_load_library that hands a name it did not find to load_library as it is.
TryLoadLibraryBareName(name, name_format, hold, ts) ==
    LET found == SearchDirs(name, name_format)
    IN  IF IsSome(found)
        THEN LoadLibrary(Unwrap(found), hold, ts)
        ELSE LoadLibrary(Join(CurDir, GetLibraryName(name, name_format)), hold, ts)

\* try_load_library
TryLoadLibrary(name, name_format, hold, ts) ==
    LET found == SearchDirs(name, name_format)
    IN  IF IsSome(found)
        THEN LoadLibrary(Unwrap(found), hold, ts)
        ELSE Err(ErrFind(name))

\* --------------------------------------------------------- Library Registry

\* PartialEq for Lib as derive would make it: every field is compared.
LibEqAllFields(a, b) == a = b

\* PartialEq for Lib: eq compares original_path and nothing else.
LibEq(a, b) == a.original_path = b.original_path

\* ne is the default one: !eq.
LibNe(a, b) == ~LibEq(a, b)

\* should_reload that compares the whole paths.
ShouldReloadSamePath(reload_path, lib) ==
    IF IsSome(lib.original_path)
    THEN reload_path = Unwrap(lib.original_path)
    ELSE FALSE

\* should_reload that falls back on loaded_path when there is no
\* original_path.
ShouldReloadLoadedPath(reload_path, lib) ==
    IF IsSome(lib.original_path)
    THEN FileName(reload_path) = FileName(Unwrap(lib.original_path))
    ELSE FileName(reload_path) = FileName(lib.loaded_path)

\* should_reload: the file names match; a Lib without original_path never does.
ShouldReload(reload_path, lib) ==
    IF IsSome(lib.original_path)
    THEN FileName(reload_path) = FileName(Unwrap(lib.original_path))
    ELSE FALSE

\* Vec::swap_remove(idx): the last element takes the removed one's place.
SwapRemove(v, i) ==
    [k \in 1..(Len(v) - 1) |-> IF k = i THEN v[Len(v)] ELSE v[k]]

\* remove_lib that truncates the Vec at the index.
RemoveLibTruncates(v, i) == SubSeq(v, 1, i - 1)

\* remove_lib that pops the last element whatever the index.
RemoveLibPops(v, i) == SubSeq(v, 1, Len(v) - 1)

\* remove_lib
RemoveLib(v, i) == SwapRemove(v, i)

\* Dropping an Arc<Lib> as if it were the Library itself: the handle is
\* closed whoever else holds the Module.
ArcDropCloses(loaded, lib, registry, host) == loaded \ {lib.id}

\* Dropping one Arc<Lib> of lib, the remaining ones being those of registry
\* and of the host: the last one drops the Library, which closes the handle.
ArcDrop(loaded, lib, registry, host) ==
    IF lib.id \in host \/ \E l \in Range(registry) : l.id = lib.id
    THEN loaded
    ELSE loaded \ {lib.id}

\* ------------------------------------------------------------------- state

\* One update_call invocation: the UpdateState, the Module passed (if any),
\* the error carried by ReloadFailed, and what the callback can observe of
\* the Registry while it runs.
Call(state, lib, err, registry) ==
    [state |-> state, lib |-> lib, err |-> err,
     inreg |-> IsSome(lib) /\ Unwrap(lib) \in Range(registry),
     n |-> Len(registry)]

\* What add_library was called with and what it returned.
Returned(name, name_format, r) ==
    [name |-> Some(name), format |-> name_format, ok |-> r.ok, lib |-> r.lib,
     err |-> r.err]

NoResult ==
    [name |-> None, format |-> "No", ok |-> FALSE, lib |-> None, err |-> None]

\* What reload_libs starts from: self.libs, and the callbacks of this update
\* call so far.
Snap(registry, from) == [libs |-> registry, from |-> from]
NoSnap == Snap(<<>>, 0)

\* What the host may pass to new.
Searches == {"Default", "Backwards"}
Args(search, dir) == [search |-> search, shadow_dir |-> dir]

\* Directories TempDir::new_in can make a directory in.
UsableRoots == {TmpRoot}

\* get_temp_dir that stages into the given root itself when no directory
\* can be made in it.
GetTempDirKeepsRoot(dir) ==
    IF IsSome(dir) /\ Unwrap(dir) \in UsableRoots
    THEN Some(Unwrap(dir) \o <<"shadow_libs">>)
    ELSE dir

\* get_temp_dir: a fresh "shadow_libs" directory in the given root, or None
\* when none is given or it cannot be made.
GetTempDir(dir) ==
    IF IsSome(dir) /\ Unwrap(dir) \in UsableRoots
    THEN Some(Unwrap(dir) \o <<"shadow_libs">>)
    ELSE None

\* get_search_paths: the given paths, in the given order.
GetSearchPaths(paths) == IF IsSome(paths) THEN Unwrap(paths) ELSE <<>>

\* DynamicReload::new(search_paths, shadow_dir, _search, _): only the first
\* two arguments reach a field.  The other variables are those of a host
\* that has called nothing yet and of a watcher that has seen nothing.
New(paths, a, files) ==
    /\ libs = <<>>
    /\ args = a
    /\ shadow_dir = GetTempDir(a.shadow_dir)
    /\ search_paths = GetSearchPaths(paths)
    /\ watcher = TRUE
    /\ watches = {}
    /\ watch_recv = <<>>
    /\ fs = files
    /\ debouncing = [p \in Files |-> "None"]
    /\ nextId = 0
    /\ pc = "idle"
    /\ cur = FileY
    /\ idx = 0
    /\ calls = <<>>
    /\ result = NoResult
    /\ mods = 0
    /\ written = {}
    /\ fired = [before |-> 0, after |-> 0]
    /\ lost = {}
    /\ retry = FALSE
    /\ dupAdded = FALSE
    /\ held = {}
    /\ live = {}
    /\ snap = NoSnap

\* The state after new(Some(vec![SearchDir]), shadow_dir, Search::Backwards,
\* _) with or without a shadow dir; the file under the search path may be
\* missing.
Init ==
    \E dir \in {None, Some(TmpRoot)}, c \in {"absent", "lib"} :
        New(Some(<<SearchDir>>), Args("Backwards", dir),
            [p \in Files |-> IF p = FileX1 THEN c ELSE "lib"])

\* File names of the registered Modules that have an original_path.
RegisteredNames(registry) ==
    {FileName(Unwrap(l.original_path)) :
        l \in {m \in Range(registry) : IsSome(m.original_path)}}

\* ------------------------------------------------------------- add_library

AddLibrary(name, name_format, hold, ts) ==
    /\ pc = "idle"
    /\ pc' = "added"
    /\ LET r == TryLoadLibrary(name, name_format, hold, ts)
       IN  /\ result' = Returned(name, name_format, r)
           /\ IF r.ok
              THEN LET lib == Unwrap(r.lib)
                   IN  /\ watches' =
                              IF watcher /\ IsSome(lib.original_path)
                              THEN watches \cup {Parent(Unwrap(lib.original_path))}
                              ELSE watches
                       /\ libs' = Append(libs, lib)
                       /\ nextId' = lib.id
                       /\ held' = held \cup {lib.id}
                       /\ live' = live \cup {lib.id}
                       /\ lost' = lost \ Range(lib.original_path)
                       /\ dupAdded' =
                              (dupAdded \/
                               (IsSome(lib.original_path) /\
                                FileName(Unwrap(lib.original_path))
                                    \in RegisteredNames(libs)))
              ELSE UNCHANGED <<watches, libs, nextId, lost, dupAdded, held,
                               live>>
    /\ UNCHANGED <<shadow_dir, search_paths, watcher, watch_recv, debouncing,
                   fs, cur, idx, calls, mods, written, fired, retry, args,
                   snap>>

\* The host takes the value add_library returned and goes on.
AddReturn ==
    /\ pc = "added"
    /\ pc' = "idle"
    /\ result' = NoResult
    /\ UNCHANGED <<libs, shadow_dir, search_paths, watcher, watches,
                   watch_recv, debouncing, fs, nextId, cur, idx, calls,
                   mods, written, fired, lost, retry, dupAdded,
                   args, held, live, snap>>

\* ------------------------------------------------------------------ update

\* The host calls update.
UpdateBegin ==
    /\ pc = "idle"
    /\ pc' = "recv"
    /\ UNCHANGED <<libs, shadow_dir, search_paths, watcher, watches,
                   watch_recv, debouncing, fs, nextId, cur, idx, calls,
                   result, mods, written, fired, lost, retry, dupAdded,
                   args, held, live, snap>>

\* update that takes a failed try_recv for one more notification of the
\* path it saw last.
UpdateRecvReloadsOnEmpty ==
    /\ pc = "recv"
    /\ IF watch_recv = <<>>
       THEN /\ pc' = "scan"
            /\ idx' = Len(libs)
            /\ snap' = Snap(libs, Len(calls))
            /\ UNCHANGED <<watch_recv, cur, retry>>
       ELSE LET evt == Head(watch_recv)
            IN  /\ watch_recv' = Tail(watch_recv)
                /\ IF evt.kind \in ReloadKinds
                   THEN /\ pc' = "scan"
                        /\ cur' = evt.path
                        /\ idx' = Len(libs)
                        /\ retry' = (evt.path \in lost)
                        /\ snap' = Snap(libs, Len(calls))
                   ELSE UNCHANGED <<pc, cur, idx, retry, snap>>
    /\ UNCHANGED <<libs, shadow_dir, search_paths, watcher, watches,
                   debouncing, fs, nextId, result, mods, written, fired, lost,
                   dupAdded, calls, args, held, live>>

\* update that receives the notification sent last.
UpdateRecvTakesLast ==
    /\ pc = "recv"
    /\ IF watch_recv = <<>>
       THEN /\ pc' = "idle"
            /\ calls' = <<>>
            /\ UNCHANGED <<watch_recv, cur, idx, retry, snap>>
       ELSE LET evt == watch_recv[Len(watch_recv)]
            IN  /\ watch_recv' = SubSeq(watch_recv, 1, Len(watch_recv) - 1)
                /\ IF evt.kind \in ReloadKinds
                   THEN /\ pc' = "scan"
                        /\ cur' = evt.path
                        /\ idx' = Len(libs)
                        /\ retry' = (evt.path \in lost)
                        /\ snap' = Snap(libs, Len(calls))
                   ELSE UNCHANGED <<pc, cur, idx, retry, snap>>
                /\ UNCHANGED calls
    /\ UNCHANGED <<libs, shadow_dir, search_paths, watcher, watches,
                   debouncing, fs, nextId, result, mods, written, fired, lost,
                   dupAdded, args, held, live>>

\* update that returns when the oldest notification is a Write, which it
\* leaves in the channel.
UpdateRecvLeavesWrite ==
    /\ pc = "recv"
    /\ IF watch_recv = <<>> \/ Head(watch_recv).kind = "Write"
       THEN /\ pc' = "idle"
            /\ calls' = <<>>
            /\ UNCHANGED <<watch_recv, cur, idx, retry, snap>>
       ELSE LET evt == Head(watch_recv)
            IN  /\ watch_recv' = Tail(watch_recv)
                /\ IF evt.kind \in ReloadKinds
                   THEN /\ pc' = "scan"
                        /\ cur' = evt.path
                        /\ idx' = Len(libs)
                        /\ retry' = (evt.path \in lost)
                        /\ snap' = Snap(libs, Len(calls))
                   ELSE UNCHANGED <<pc, cur, idx, retry, snap>>
                /\ UNCHANGED calls
    /\ UNCHANGED <<libs, shadow_dir, search_paths, watcher, watches,
                   debouncing, fs, nextId, result, mods, written, fired, lost,
                   dupAdded, args, held, live>>

\* update without the match on the event: every notification starts
\* reload_libs.
UpdateRecvAnyKind ==
    /\ pc = "recv"
    /\ IF watch_recv = <<>>
       THEN /\ pc' = "idle"
            /\ calls' = <<>>
            /\ UNCHANGED <<watch_recv, cur, idx, retry, snap>>
       ELSE LET evt == Head(watch_recv)
            IN  /\ watch_recv' = Tail(watch_recv)
                /\ pc' = "scan"
                /\ cur' = evt.path
                /\ idx' = Len(libs)
                /\ retry' = (evt.path \in lost)
                /\ snap' = Snap(libs, Len(calls))
                /\ UNCHANGED calls
    /\ UNCHANGED <<libs, shadow_dir, search_paths, watcher, watches,
                   debouncing, fs, nextId, result, mods, written, fired, lost,
                   dupAdded, args, held, live>>

\* while let Ok(evt) = self.watch_recv.try_recv(): an empty channel ends the
\* call; NoticeWrite, Write and Create start reload_libs; the rest is dropped.
UpdateRecv ==
    /\ pc = "recv"
    /\ IF watch_recv = <<>>
       THEN /\ pc' = "idle"
            /\ calls' = <<>>
            /\ UNCHANGED <<watch_recv, cur, idx, retry, snap>>
       ELSE LET evt == Head(watch_recv)
            IN  /\ watch_recv' = Tail(watch_recv)
                /\ IF evt.kind \in ReloadKinds
                   THEN /\ pc' = "scan"
                        /\ cur' = evt.path
                        /\ idx' = Len(libs)
                        /\ retry' = (evt.path \in lost)
                        /\ snap' = Snap(libs, Len(calls))
                   ELSE UNCHANGED <<pc, cur, idx, retry, snap>>
                /\ UNCHANGED calls
    /\ UNCHANGED <<libs, shadow_dir, search_paths, watcher, watches,
                   debouncing, fs, nextId, result, mods, written, fired, lost,
                   dupAdded, args, held, live>>

\* reload_libs with for i in 0..len: the position read is counted from the
\* front.
ReloadLibsForward ==
    /\ pc = "scan"
    /\ LET i == Len(snap.libs) + 1 - idx
       IN  IF idx = 0
           THEN /\ pc' = "recv"
                /\ retry' = FALSE
                /\ snap' = NoSnap
                /\ UNCHANGED <<libs, idx, calls, fired, live>>
           ELSE IF i > Len(libs)
           THEN /\ pc' = "panic"
                /\ UNCHANGED <<libs, idx, calls, fired, retry, live, snap>>
           ELSE IF ShouldReload(cur, libs[i])
           THEN /\ calls' = Append(calls, Call("Before", Some(libs[i]), None, libs))
                /\ fired' = [fired EXCEPT !.before = @ + 1]
                /\ libs' = RemoveLib(libs, i)
                /\ live' = ArcDrop(live, libs[i], libs', held)
                /\ pc' = "load"
                /\ UNCHANGED <<idx, retry, snap>>
           ELSE /\ idx' = idx - 1
                /\ UNCHANGED <<libs, pc, calls, fired, retry, live, snap>>
    /\ UNCHANGED <<shadow_dir, search_paths, watcher, watches, watch_recv,
                   debouncing, fs, nextId, cur, result, mods, written, lost,
                   dupAdded, args, held>>

\* reload_libs whose reload_lib calls remove_lib first and Before after it.
ReloadLibsRemovesFirst ==
    /\ pc = "scan"
    /\ IF idx = 0
       THEN /\ pc' = "recv"
            /\ retry' = FALSE
            /\ snap' = NoSnap
            /\ UNCHANGED <<libs, idx, calls, fired, live>>
       ELSE IF idx > Len(libs)
       THEN /\ pc' = "panic"
            /\ UNCHANGED <<libs, idx, calls, fired, retry, live, snap>>
       ELSE IF ShouldReload(cur, libs[idx])
       THEN /\ libs' = RemoveLib(libs, idx)
            /\ calls' = Append(calls, Call("Before", Some(libs[idx]), None, libs'))
            /\ fired' = [fired EXCEPT !.before = @ + 1]
            /\ live' = ArcDrop(live, libs[idx], libs', held)
            /\ pc' = "load"
            /\ UNCHANGED <<idx, retry, snap>>
       ELSE /\ idx' = idx - 1
            /\ UNCHANGED <<libs, pc, calls, fired, retry, live, snap>>
    /\ UNCHANGED <<shadow_dir, search_paths, watcher, watches, watch_recv,
                   debouncing, fs, nextId, cur, result, mods, written, lost,
                   dupAdded, args, held>>

\* reload_libs: one turn of for i in (0..len).rev().  Reading libs[i] past
\* the end panics.  A match starts reload_lib: Before, then remove_lib.
ReloadLibs ==
    /\ pc = "scan"
    /\ IF idx = 0
       THEN /\ pc' = "recv"
            /\ retry' = FALSE
            /\ snap' = NoSnap
            /\ UNCHANGED <<libs, idx, calls, fired, live>>
       ELSE IF idx > Len(libs)
       THEN /\ pc' = "panic"
            /\ UNCHANGED <<libs, idx, calls, fired, retry, live, snap>>
       ELSE IF ShouldReload(cur, libs[idx])
       THEN /\ calls' = Append(calls, Call("Before", Some(libs[idx]), None, libs))
            /\ fired' = [fired EXCEPT !.before = @ + 1]
            /\ libs' = RemoveLib(libs, idx)
            /\ live' = ArcDrop(live, libs[idx], libs', held)
            /\ pc' = "load"
            /\ UNCHANGED <<idx, retry, snap>>
       ELSE /\ idx' = idx - 1
            /\ UNCHANGED <<libs, pc, calls, fired, retry, live, snap>>
    /\ UNCHANGED <<shadow_dir, search_paths, watcher, watches, watch_recv,
                   debouncing, fs, nextId, cur, result, mods, written, lost,
                   dupAdded, args, held>>

\* reload_lib with the Err arm left empty: a failed load tells the host
\* nothing.
ReloadLibSilentFailure(hold, ts) ==
    /\ pc = "load"
    /\ LET r == LoadLibrary(cur, hold, ts)
           old == Unwrap(calls[Len(calls)].lib)
       IN  /\ IF r.ok
              THEN /\ libs' = Append(libs, Unwrap(r.lib))
                   /\ nextId' = Unwrap(r.lib).id
                   /\ live' = live \cup {Unwrap(r.lib).id}
                   /\ calls' = Append(calls, Call("After", r.lib, None, libs'))
                   /\ fired' = [fired EXCEPT !.after = @ + 1]
                   /\ lost' = lost \ Range(Unwrap(r.lib).original_path)
              ELSE /\ lost' = lost \cup Range(old.original_path)
                   /\ UNCHANGED <<libs, nextId, fired, calls, live>>
    /\ pc' = "scan"
    /\ idx' = idx - 1
    /\ UNCHANGED <<shadow_dir, search_paths, watcher, watches, watch_recv,
                   debouncing, fs, cur, result, mods, written, retry,
                   dupAdded, args, held, snap>>

\* reload_lib that puts the old Module back when the load fails.
ReloadLibKeepsOld(hold, ts) ==
    /\ pc = "load"
    /\ LET r == LoadLibrary(cur, hold, ts)
           old == Unwrap(calls[Len(calls)].lib)
       IN  /\ IF r.ok
              THEN /\ libs' = Append(libs, Unwrap(r.lib))
                   /\ nextId' = Unwrap(r.lib).id
                   /\ live' = live \cup {Unwrap(r.lib).id}
                   /\ calls' = Append(calls, Call("After", r.lib, None, libs'))
                   /\ fired' = [fired EXCEPT !.after = @ + 1]
                   /\ lost' = lost \ Range(Unwrap(r.lib).original_path)
              ELSE /\ libs' = Append(libs, old)
                   /\ calls' = Append(calls, Call("ReloadFailed", None, r.err, libs'))
                   /\ UNCHANGED <<nextId, fired, lost, live>>
    /\ pc' = "scan"
    /\ idx' = idx - 1
    /\ UNCHANGED <<shadow_dir, search_paths, watcher, watches, watch_recv,
                   debouncing, fs, cur, result, mods, written, retry,
                   dupAdded, args, held, snap>>

\* reload_lib after remove_lib: load_library(file_path), then push and After,
\* or ReloadFailed with no Module.
ReloadLib(hold, ts) ==
    /\ pc = "load"
    /\ LET r == LoadLibrary(cur, hold, ts)
           old == Unwrap(calls[Len(calls)].lib)
       IN  /\ IF r.ok
              THEN /\ libs' = Append(libs, Unwrap(r.lib))
                   /\ nextId' = Unwrap(r.lib).id
                   /\ live' = live \cup {Unwrap(r.lib).id}
                   /\ calls' = Append(calls, Call("After", r.lib, None, libs'))
                   /\ fired' = [fired EXCEPT !.after = @ + 1]
                   /\ lost' = lost \ Range(Unwrap(r.lib).original_path)
              ELSE /\ calls' = Append(calls, Call("ReloadFailed", None, r.err, libs))
                   /\ lost' = lost \cup Range(old.original_path)
                   /\ UNCHANGED <<libs, nextId, fired, live>>
    /\ pc' = "scan"
    /\ idx' = idx - 1
    /\ UNCHANGED <<shadow_dir, search_paths, watcher, watches, watch_recv,
                   debouncing, fs, cur, result, mods, written, retry,
                   dupAdded, args, held, snap>>

\* ------------------------------------------------------------- environment

\* Whether the watcher reports changes of path.
Watched(path) == watcher /\ Parent(path) \in watches

Event(kind, path) == [kind |-> kind, path |-> path]

\* Another process writes path.  The debounced watcher sends NoticeWrite at
\* once for the first write of an existing file and holds back Write (Create
\* for a new file) until the debounce time has passed.
WriteFile(path, content) ==
    /\ mods < MaxMods
    /\ fs' = [fs EXCEPT ![path] = content]
    /\ mods' = mods + 1
    /\ written' = IF Watched(path) THEN written \cup {path} ELSE written
    /\ IF ~Watched(path)
       THEN UNCHANGED <<watch_recv, debouncing>>
       ELSE IF fs[path] = "absent"
       THEN /\ debouncing' = [debouncing EXCEPT ![path] = "Create"]
            /\ UNCHANGED watch_recv
       ELSE IF debouncing[path] \in {"None", "Chmod"}
       THEN /\ debouncing' = [debouncing EXCEPT ![path] = "Write"]
            /\ watch_recv' = Append(watch_recv, Event("NoticeWrite", path))
       ELSE UNCHANGED <<watch_recv, debouncing>>
    /\ UNCHANGED <<libs, shadow_dir, search_paths, watcher, watches,
                   nextId, pc, cur, idx, calls, result, fired, lost, retry,
                   dupAdded, args, held, live, snap>>

\* Another process changes the mode of path: the watcher will send Chmod.
ChmodFile(path) ==
    /\ mods < MaxMods
    /\ fs[path] # "absent"
    /\ mods' = mods + 1
    /\ debouncing' =
           IF Watched(path) /\ debouncing[path] = "None"
           THEN [debouncing EXCEPT ![path] = "Chmod"]
           ELSE debouncing
    /\ UNCHANGED <<libs, shadow_dir, search_paths, watcher, watches,
                   watch_recv, fs, nextId, pc, cur, idx, calls, result,
                   written, fired, lost, retry, dupAdded, args, held, live,
                   snap>>

\* A watcher thread that itself takes the Modules of that file name out of
\* the Registry when it sends the event.
WatcherSendUnregisters(path) ==
    /\ debouncing[path] # "None"
    /\ watch_recv' = Append(watch_recv, Event(debouncing[path], path))
    /\ debouncing' = [debouncing EXCEPT ![path] = "None"]
    /\ libs' = SelectSeq(libs, LAMBDA l : ~ShouldReload(path, l))
    /\ UNCHANGED <<shadow_dir, search_paths, watcher, watches, fs,
                   nextId, pc, cur, idx, calls, result, mods, written, fired,
                   lost, retry, dupAdded, args, held, live, snap>>

\* The watcher thread: the debounce time of path has passed, send its event.
WatcherSend(path) ==
    /\ debouncing[path] # "None"
    /\ watch_recv' = Append(watch_recv, Event(debouncing[path], path))
    /\ debouncing' = [debouncing EXCEPT ![path] = "None"]
    /\ UNCHANGED <<libs, shadow_dir, search_paths, watcher, watches, fs,
                   nextId, pc, cur, idx, calls, result, mods, written, fired,
                   lost, retry, dupAdded, args, held, live, snap>>

Next ==
    \/ \E name \in Names, name_format \in Formats, hold \in Holds,
          ts \in Readings :
           Len(libs) < MaxLibs /\ AddLibrary(name, name_format, hold, ts)
    \/ AddReturn
    \/ UpdateBegin
    \/ UpdateRecv
    \/ ReloadLibs
    \/ \E hold \in Holds, ts \in Readings : ReloadLib(hold, ts)
    \/ \E path \in Writable, content \in Contents : WriteFile(path, content)
    \/ \E path \in Writable : ChmodFile(path)
    \/ \E path \in Files : WatcherSend(path)

Spec == Init /\ [][Next]_vars

\* --------------------------------------------------- try_copy on its own

\* Everything that may keep attempts from copying, for any number of them.
AllHolds == {Hold(n, as) : n \in 0..CopyAttempts, as \in Hindrances}

\* What the source may be once nothing hinders any more.
CopySources == {"absent", "empty", "dir", "lib", "junk"}

\* An instance with a shadow dir; the source is any of CopySources.
InitCopy ==
    \E c \in CopySources :
        New(None, Args("Default", Some(TmpRoot)), [p \in {FileX1} |-> c])

\* load_library's call try_copy(full_path, &path), for full_path FileX1.
TryCopyCall(hold, ts) ==
    /\ pc = "idle"
    /\ pc' = "copied"
    /\ result' =
           [src |-> FileX1, seen |-> FsAt(FileX1), hold |-> hold,
            dest |-> FormatFilename(Unwrap(shadow_dir), FileX1, ts),
            out |-> TryCopy(FileX1,
                            FormatFilename(Unwrap(shadow_dir), FileX1, ts),
                            hold)]
    /\ UNCHANGED <<libs, shadow_dir, search_paths, watcher, watches,
                   watch_recv, debouncing, fs, nextId, cur, idx, calls, mods,
                   written, fired, lost, retry, dupAdded, args, held, live,
                   snap>>

\* try_copy has returned.
TryCopyReturn ==
    /\ pc = "copied"
    /\ pc' = "idle"
    /\ result' = NoResult
    /\ UNCHANGED <<libs, shadow_dir, search_paths, watcher, watches,
                   watch_recv, debouncing, fs, nextId, cur, idx, calls, mods,
                   written, fired, lost, retry, dupAdded, args, held, live,
                   snap>>

NextCopy ==
    \/ \E hold \in AllHolds, ts \in Readings : TryCopyCall(hold, ts)
    \/ TryCopyReturn

SpecCopy == InitCopy /\ [][NextCopy]_vars

\* ------------------------------------------------ reloading three Modules

\* Most Modules the host registers at one time here.
MaxRegistered == 3

\* What the host registers here: "x" by its platform name, "y" as it is.
Registered == {<<NameX, "Yes">>, <<NameY, "No">>}

\* The source is free, or locked past the last attempt.
FreeOrLocked == {Hold(0, "locked"), Hold(CopyAttempts, "locked")}

\* An instance with a shadow dir; the file under the search path is missing
\* until another process writes it.
InitReload ==
    New(Some(<<SearchDir>>), Args("Backwards", Some(TmpRoot)),
        [p \in Files |-> IF p = FileX1 THEN "absent" ELSE "lib"])

NextReload ==
    \/ \E a \in Registered, hold \in FreeOrLocked :
           Len(libs) < MaxRegistered /\ AddLibrary(a[1], a[2], hold, 0)
    \/ AddReturn
    \/ UpdateBegin
    \/ UpdateRecv
    \/ ReloadLibs
    \/ \E hold \in FreeOrLocked : ReloadLib(hold, 0)
    \/ \E path \in Writable : WriteFile(path, "lib")
    \/ \E path \in Files : WatcherSend(path)

SpecReload == InitReload /\ [][NextReload]_vars

\* ------------------------------------------- a host that drops and clones

\* The handles in a Vec<Arc<Lib>>.
Ids(registry) == {l.id : l \in Range(registry)}

\* The host drops a reference it holds: what add_library returned, or a
\* clone it made in a callback.
HostDrop(id) ==
    /\ pc = "idle"
    /\ id \in held
    /\ held' = held \ {id}
    /\ live' = ArcDrop(live, [id |-> id], libs, held')
    /\ UNCHANGED <<libs, shadow_dir, search_paths, watcher, watches,
                   watch_recv, debouncing, fs, nextId, pc, cur, idx, calls,
                   result, mods, written, fired, lost, retry, dupAdded, args,
                   snap>>

\* The After callback clones the reference it is passed.
HostClone ==
    /\ pc = "scan"
    /\ calls # <<>>
    /\ calls[Len(calls)].state = "After"
    /\ Unwrap(calls[Len(calls)].lib).id \notin held
    /\ held' = held \cup {Unwrap(calls[Len(calls)].lib).id}
    /\ UNCHANGED <<libs, shadow_dir, search_paths, watcher, watches,
                   watch_recv, debouncing, fs, nextId, pc, cur, idx, calls,
                   result, mods, written, fired, lost, retry, dupAdded, args,
                   live, snap>>

\* An instance with a shadow dir and every file in place.
InitRefs ==
    New(Some(<<SearchDir>>), Args("Backwards", Some(TmpRoot)),
        [p \in Files |-> "lib"])

\* The host registers "x" whenever the Registry is empty, and updates;
\* another process rewrites the file.
NextRefs ==
    \/ libs = <<>> /\ AddLibrary(NameX, "Yes", Hold(0, "locked"), 0)
    \/ AddReturn
    \/ UpdateBegin
    \/ UpdateRecv
    \/ ReloadLibs
    \/ \E hold \in FreeOrLocked : ReloadLib(hold, 0)
    \/ WriteFile(FileX1, "lib")
    \/ WatcherSend(FileX1)
    \/ \E id \in held : HostDrop(id)
    \/ HostClone

SpecRefs == InitRefs /\ [][NextRefs]_vars

\* ------------------------------------------- a file that is written forever

\* Most notifications waiting in the channel, and most handles Library::new
\* hands out.
MaxPending == 2
MaxHandles == 3

\* Another process rewrites path with what it holds, any number of times.
\* The watcher reacts as to any write.
RewriteFile(path) ==
    /\ fs[path] # "absent"
    /\ Watched(path)
    /\ debouncing[path] \in {"None", "Chmod"}
    /\ debouncing' = [debouncing EXCEPT ![path] = "Write"]
    /\ watch_recv' = Append(watch_recv, Event("NoticeWrite", path))
    /\ UNCHANGED <<libs, shadow_dir, search_paths, watcher, watches, fs,
                   nextId, pc, cur, idx, calls, result, mods, written, fired,
                   lost, retry, dupAdded, args, held, live, snap>>

\* reload_lib's load: once MaxHandles are out the file is found locked.
ReloadLibBounded ==
    \E hold \in FreeOrLocked :
        /\ hold.n = 0 => nextId < MaxHandles
        /\ ReloadLib(hold, 0)

\* The steps of the host thread inside add_library and update.
HostRuns == AddReturn \/ UpdateRecv \/ ReloadLibs \/ ReloadLibBounded

InitLive ==
    New(Some(<<SearchDir>>), Args("Backwards", Some(TmpRoot)),
        [p \in Files |-> "lib"])

NextLive ==
    \/ /\ libs = <<>>
       /\ nextId < MaxHandles
       /\ AddLibrary(NameX, "Yes", Hold(0, "locked"), 0)
    \/ AddReturn
    \/ UpdateBegin
    \/ UpdateRecv
    \/ ReloadLibs
    \/ ReloadLibBounded
    \/ Len(watch_recv) < MaxPending /\ RewriteFile(FileX1)
    \/ Len(watch_recv) < MaxPending /\ WatcherSend(FileX1)

\* The host thread runs on once it is inside a call: try_recv does not wait,
\* try_copy gives up after its attempts.
SpecLive == InitLive /\ [][NextLive]_vars /\ WF_vars(HostRuns)

\* ------------------------------------------------ an instance that stages nothing

\* The kinds of DebouncedEvent that carry a path.
EventKinds == ReloadKinds \cup {"Chmod", "Remove"}

\* The channel delivers an event of any kind for any file, whatever is
\* watched: update is followed through every sequence of notifications.
Deliver(kind, path) ==
    /\ watch_recv' = Append(watch_recv, Event(kind, path))
    /\ UNCHANGED <<libs, shadow_dir, search_paths, watcher, watches,
                   debouncing, fs, nextId, pc, cur, idx, calls, result, mods,
                   written, fired, lost, retry, dupAdded, args, held, live,
                   snap>>

\* new without a shadow dir, or with one in which no directory can be made.
InitDirect ==
    \E dir \in {None, Some(NoSuchDir)} :
        New(Some(<<SearchDir>>), Args("Backwards", dir), [p \in Files |-> "lib"])

NextDirect ==
    \/ \E a \in Registered :
           Len(libs) < MaxLibs /\ AddLibrary(a[1], a[2], Hold(0, "locked"), 0)
    \/ AddReturn
    \/ UpdateBegin
    \/ UpdateRecv
    \/ ReloadLibs
    \/ \E path \in Writable : WriteFile(path, "lib")
    \/ \E kind \in EventKinds, path \in Files :
           Len(watch_recv) < MaxPending /\ Deliver(kind, path)

SpecDirect == InitDirect /\ [][NextDirect]_vars

\* ------------------------------------------- draining any notifications

\* An instance with a shadow dir whose channel delivers events of any kind
\* for any file.
InitDrain ==
    New(Some(<<SearchDir>>), Args("Backwards", Some(TmpRoot)),
        [p \in Files |-> "lib"])

NextDrain ==
    \/ \E a \in Registered :
           /\ Len(libs) < MaxLibs
           /\ nextId < MaxHandles
           /\ AddLibrary(a[1], a[2], Hold(0, "locked"), 0)
    \/ AddReturn
    \/ UpdateBegin
    \/ UpdateRecv
    \/ ReloadLibs
    \/ ReloadLibBounded
    \/ \E kind \in EventKinds, path \in Files :
           Len(watch_recv) < MaxPending /\ Deliver(kind, path)

SpecDrain == InitDrain /\ [][NextDrain]_vars

\* ----------------------------------------------------- Lib::eq on its own

\* Lib values: two handles, no original_path or one of two, loaded in place
\* or from a staged copy.
LibValues ==
    [id : 1..2,
     original_path : {None, Some(FileX1), Some(FileX2)},
     loaded_path : {FileX1, FileX2, FormatFilename(ShadowDir, FileX1, 0)}]

InitEq == New(None, Args("Default", None), [p \in Files |-> "lib"])

\* The host compares two Modules with == and with !=.
LibEqCall(a, b) ==
    /\ pc = "idle"
    /\ pc' = "compared"
    /\ result' = [a |-> a, b |-> b, eq |-> LibEq(a, b), ne |-> LibNe(a, b)]
    /\ UNCHANGED <<libs, shadow_dir, search_paths, watcher, watches,
                   watch_recv, debouncing, fs, nextId, cur, idx, calls, mods,
                   written, fired, lost, retry, dupAdded, args, held, live,
                   snap>>

LibEqReturn ==
    /\ pc = "compared"
    /\ pc' = "idle"
    /\ result' = NoResult
    /\ UNCHANGED <<libs, shadow_dir, search_paths, watcher, watches,
                   watch_recv, debouncing, fs, nextId, cur, idx, calls, mods,
                   written, fired, lost, retry, dupAdded, args, held, live,
                   snap>>

NextEq ==
    \/ \E a, b \in LibValues : LibEqCall(a, b)
    \/ LibEqReturn

SpecEq == InitEq /\ [][NextEq]_vars

\* ------------------------------------------------- resolution on its own

\* Where "libx.so" may be: every directory search_dirs can look into.
ResolveDirs == {CurDir, SearchDir, OtherDir, ExeDir, ExeParent, RootDir}
ResolveFile(dir) == Join(dir, GetDynamiclibName(NameX))

\* What new may be given as search paths, and as shadow dir.
PathLists == {None, Some(<<SearchDir, OtherDir>>), Some(<<OtherDir, SearchDir>>)}
ShadowRoots == {None, Some(TmpRoot), Some(NoSuchDir)}

\* File systems: each candidate is a library or missing, the one in the
\* working directory may also be a directory of that name.
ResolveFileSystems ==
    {f \in [{ResolveFile(d) : d \in ResolveDirs} -> {"absent", "lib", "dir"}] :
        \A d \in ResolveDirs \ {CurDir} : f[ResolveFile(d)] # "dir"}

\* new with any of these arguments on any of these file systems.
InitResolve ==
    \E paths \in PathLists, search \in Searches, dir \in ShadowRoots,
       files \in ResolveFileSystems :
        New(paths, Args(search, dir), files)

\* The host only registers "x", by either name format.
NextResolve ==
    \/ \E name_format \in Formats, hold \in Holds, ts \in Readings :
           Len(libs) < MaxLibs /\ AddLibrary(NameX, name_format, hold, ts)
    \/ AddReturn

SpecResolve == InitResolve /\ [][NextResolve]_vars

\* ------------------------------------------------------------- properties

Completions == {"After", "ReloadFailed"}

\* C1: within one update call the callbacks come in pairs: every Before is
\* followed at once by exactly one After or ReloadFailed, every After or
\* ReloadFailed follows a Before at once, and a Before is unanswered only
\* while reload_lib is still loading, never when update receives the next
\* notification or returns.
C1_CallbacksInPairs ==
    /\ \A k \in 1..Len(calls) :
           calls[k].state \in Completions =>
               k > 1 /\ calls[k - 1].state = "Before"
    /\ \A k \in 1..(Len(calls) - 1) :
           calls[k].state = "Before" => calls[k + 1].state \in Completions
    /\ (calls # <<>> /\ calls[Len(calls)].state = "Before") <=> pc = "load"
    /\ pc \in {"idle", "added"} => calls = <<>>

\* An update call that has run a pair ending in After and a pair ending in
\* ReloadFailed and is about to receive again.
C1_Witness ==
    /\ pc = "recv"
    /\ \E j, k \in 1..Len(calls) :
           /\ calls[j].state = "After"
           /\ calls[k].state = "ReloadFailed"

\* C2: a failed reload attempt ends in ReloadFailed, never After: a file that
\* is no library cannot end in After; ReloadFailed carries CopyTimeOut or Load
\* and no Module, is the one callback of that step, finds the Registry one
\* entry shorter than Before found it, and the Module passed to Before has no
\* entry in the Registry from then on, to the end of the update call.
C2_FailedReloadUnregisters ==
    /\ [](\A k \in 1..Len(calls) :
              calls[k].state = "ReloadFailed" =>
                  /\ calls[k].lib = None
                  /\ IsSome(calls[k].err)
                  /\ Unwrap(calls[k].err).tag \in {"CopyTimeOut", "Load"}
                  /\ k > 1
                  /\ calls[k - 1].state = "Before"
                  /\ calls[k].n = calls[k - 1].n - 1
                  /\ Unwrap(calls[k - 1].lib) \notin Range(libs))
    /\ [][pc = "load" =>
              /\ Len(calls') <= Len(calls) + 1
              /\ (pc' # "load" /\ FsAt(cur) # "lib") =>
                     /\ calls'[Len(calls')].state = "ReloadFailed"
                     /\ Len(libs') = Len(libs)
                     /\ fired'.after = fired.after]_vars

\* An update call is over its last notification; a reload in it failed on a
\* copy timeout and another on a rejected load.
C2_Witness ==
    /\ pc = "recv"
    /\ watch_recv = <<>>
    /\ \E j, k \in 1..Len(calls) :
           /\ calls[j].state = "ReloadFailed"
           /\ Unwrap(calls[j].err).tag = "CopyTimeOut"
           /\ calls[k].state = "ReloadFailed"
           /\ Unwrap(calls[k].err).tag = "Load"

\* C3: when update has gone through a notification for a source whose Module
\* an earlier failed reload removed, and the file is now a library (staging
\* and load would succeed), the Module is in the Registry again and After
\* has been invoked for it.
C3_ReloadedAfterFailure ==
    (pc = "scan" /\ idx = 0 /\ retry /\ FsAt(cur) = "lib") =>
        /\ \E l \in Range(libs) : l.original_path = Some(cur)
        /\ \E k \in 1..Len(calls) :
               /\ calls[k].state = "After"
               /\ Unwrap(calls[k].lib).original_path = Some(cur)

\* Successful add_library calls so far: every handle but those of reloads.
Registrations == nextId - fired.after

\* update has nothing left to do: idle host, empty channel, nothing debouncing.
Quiescent ==
    /\ pc = "idle"
    /\ watch_recv = <<>>
    /\ \A p \in Files : debouncing[p] = "None"

\* C4: with staging, one registered Module and a single modification of the
\* file system, Before and After are invoked at most once each, and once all
\* notifications are consumed Before has been invoked exactly once if the
\* modification was a write of the Module's watched source.
C4_ExactlyOneReload ==
    (IsSome(shadow_dir) /\ Registrations = 1 /\ mods = 1) =>
        /\ fired.before <= 1
        /\ fired.after <= 1
        /\ (Quiescent /\ written # {}) => fired.before = 1

\* C5: the Module passed to After has the original_path of the Module passed
\* to the Before just ahead of it.
C5_ReloadKeepsOriginalPath ==
    \A k \in 2..Len(calls) :
        calls[k].state = "After" =>
            Unwrap(calls[k].lib).original_path =
                Unwrap(calls[k - 1].lib).original_path

\* C6: with staging, a Module that add_library or a reload inserts is loaded
\* from a path that no Module in the Registry was loaded from.
C6_StagedPathIsFresh ==
    [][(IsSome(shadow_dir) /\ nextId' > nextId) =>
           \A l \in Range(libs) :
               l.loaded_path # libs'[Len(libs')].loaded_path]_vars

\* C7, as claimed: no two entries of the Registry have the same present
\* original_path.
C7_UniqueOriginalPath ==
    \A j, k \in 1..Len(libs) :
        (j < k /\ IsSome(libs[j].original_path)) =>
            libs[j].original_path # libs[k].original_path

\* C7, amended: no two entries of the Registry have the same present
\* original_path as long as add_library has not registered a file whose
\* name is that of a Module already in the Registry.
C7_UniqueUnlessSameNameAdded == ~dupAdded => C7_UniqueOriginalPath

\* Two Modules with different file names are registered, none under a name
\* already there, and a reload has succeeded.
C7_Witness ==
    /\ ~dupAdded
    /\ Len(libs) = 2
    /\ \A k \in 1..Len(libs) : IsSome(libs[k].original_path)
    /\ fired.after > 0

\* C8: entering update changes nothing, and a try_recv that finds the channel
\* empty ends the call: no callback is invoked, and the Registry, the shadow
\* dir, the search paths and the watch set stay as they are.
C8_UpdateWithoutNotification ==
    [][((pc = "idle" /\ pc' = "recv") \/ (pc = "recv" /\ watch_recv = <<>>)) =>
           /\ pc' \in {"recv", "idle"}
           /\ Len(calls') <= Len(calls)
           /\ UNCHANGED <<libs, shadow_dir, search_paths, watches, fired,
                          nextId>>]_vars

\* update is at try_recv with an empty channel and no callback invoked, on an
\* instance with a staged Module and a watch.
C8_Witness ==
    /\ pc = "recv"
    /\ watch_recv = <<>>
    /\ calls = <<>>
    /\ libs # <<>>
    /\ watches # {}

\* Where a library is looked for: the working directory, the search paths,
\* the directory of the executable and the directories above it.
SearchLocations ==
    {CurDir} \cup Range(search_paths)
        \cup {SubSeq(Parent(ExePath), 1, k) : k \in 1..Len(Parent(ExePath))}

NoSuchFile(name, name_format) ==
    \A dir \in SearchLocations :
        FsAt(Join(dir, GetLibraryName(name, name_format))) = "absent"

\* C9: add_library with a name that no search location holds returns
\* Error::Find with that name, and leaves the Registry and the watch set as
\* they are and invokes no callback.
C9_NotFound ==
    [][(pc = "idle" /\ pc' = "added"
            /\ NoSuchFile(Unwrap(result'.name), result'.format)) =>
           /\ ~result'.ok
           /\ result'.err =
                  Some([tag |-> "Find", name |-> result'.name,
                        src |-> None, dest |-> None])
           /\ UNCHANGED <<libs, watches, fired, calls, nextId>>]_vars

\* add_library has just returned Error::Find on an instance that has a Module.
C9_Witness ==
    /\ pc = "added"
    /\ ~result.ok
    /\ Unwrap(result.err).tag = "Find"
    /\ libs # <<>>

\* C10: add_library that resolves a file which is no library fails; when it
\* fails after resolving a file it returns CopyTimeOut (for that file, with
\* staging only) or Load, inserts nothing and invokes no callback; when it
\* succeeds the Module it returns is the one it inserted.
C10_LoadErrorReturned ==
    [][(pc = "idle" /\ pc' = "added") =>
           LET found == SearchDirs(Unwrap(result'.name), result'.format)
           IN  IsSome(found) =>
                   /\ FsAt(Unwrap(found)) # "lib" => ~result'.ok
                   /\ ~result'.ok =>
                          /\ Unwrap(result'.err).tag \in {"CopyTimeOut", "Load"}
                          /\ Unwrap(result'.err).tag = "CopyTimeOut" =>
                                 /\ IsSome(shadow_dir)
                                 /\ Unwrap(result'.err).src = found
                          /\ result'.lib = None
                          /\ UNCHANGED <<libs, watches, fired, calls, nextId>>
                   /\ result'.ok => libs' = Append(libs, Unwrap(result'.lib))]_vars

\* add_library has just returned Error::Load for a file it resolved, on an
\* instance with staging.
C10_Witness ==
    /\ pc = "added"
    /\ ~result.ok
    /\ Unwrap(result.err).tag = "Load"
    /\ IsSome(shadow_dir)

\* The directories search_dirs is to look into, in the order it is to.
ExeChain ==
    [k \in 1..Len(Parent(ExePath)) |->
        SubSeq(Parent(ExePath), 1, Len(Parent(ExePath)) - k + 1)]

SearchOrder == <<CurDir>> \o search_paths \o ExeChain

\* The positions in SearchOrder that hold a regular file of that name.
Hits(lib_name) ==
    {k \in 1..Len(SearchOrder) :
        FsAt(Join(SearchOrder[k], lib_name)) \notin {"absent", "dir"}}

\* The path an add_library call resolved, as far as its result tells.
Resolved(r) ==
    IF r.ok
    THEN IF IsSome(Unwrap(r.lib).original_path)
         THEN Unwrap(r.lib).original_path
         ELSE Some(Unwrap(r.lib).loaded_path)
    ELSE Unwrap(r.err).src

\* C11: add_library resolves the name to the first directory, in the order
\* working directory, search paths as configured, directory of the
\* executable, its ancestors going up, that holds a regular file of that
\* name, and to nothing when none does.
C11_FirstMatchWins ==
    [][(pc = "idle" /\ pc' = "added") =>
           LET hits == Hits(GetLibraryName(Unwrap(result'.name), result'.format))
           IN  IF hits = {}
               THEN ~result'.ok /\ Unwrap(result'.err).tag = "Find"
               ELSE LET first == CHOOSE k \in hits : \A j \in hits : k <= j
                    IN  Resolved(result') =
                            Some(Join(SearchOrder[first],
                                      GetLibraryName(Unwrap(result'.name),
                                                     result'.format)))]_vars

\* add_library resolved the file in the second search path: the working
\* directory has a directory of that name, the first search path nothing,
\* and the directory of the executable has the file too.
C11_Witness ==
    /\ pc = "added"
    /\ result.ok
    /\ Len(search_paths) = 2
    /\ Resolved(result) = Some(ResolveFile(search_paths[2]))
    /\ FsAt(ResolveFile(CurDir)) = "dir"
    /\ FsAt(ResolveFile(ExeDir)) = "lib"

\* C12: with Search::Default, add_library of a name that only proper
\* ancestors of the executable's directory hold returns Error::Find.
C12_DefaultSearchStopsAtExeDir ==
    [][(/\ pc = "idle" /\ pc' = "added"
        /\ args.search = "Default"
        /\ \A k \in Hits(GetLibraryName(Unwrap(result'.name), result'.format)) :
               k > Len(SearchOrder) - Len(ExeChain) + 1) =>
           (~result'.ok /\ Unwrap(result'.err).tag = "Find")]_vars

\* C14: when new was given a shadow root no directory can be made in, the
\* instance has no shadow dir, and every Module registered on it or returned
\* by add_library has no original_path and is loaded from a library file in
\* one of the directories searched.
C14_UnusableShadowRoot ==
    (IsSome(args.shadow_dir) /\ Unwrap(args.shadow_dir) \notin UsableRoots) =>
        /\ shadow_dir = None
        /\ \A l \in Range(libs) \cup Range(result.lib) :
               /\ l.original_path = None
               /\ FsAt(l.loaded_path) = "lib"
               /\ Parent(l.loaded_path) \in Range(SearchOrder)

\* Two Modules are registered on an instance made with an unusable shadow
\* root.
C14_Witness ==
    /\ args.shadow_dir = Some(NoSuchDir)
    /\ Len(libs) = 2
    /\ pc = "idle"

\* The attempts a try_copy call made: every failed one sleeps.
Attempts(out) == out.sleeps + (IF out.ok THEN 1 ELSE 0)

\* C19: try_copy makes at most 10 attempts.  It succeeds exactly when on one
\* of the 10 the source is readable, not empty and can be copied, and it
\* then stops at the first such attempt; it calls fs::copy on no attempt that
\* finds the source unreadable or empty; otherwise it makes all 10 attempts
\* and returns CopyTimeOut with the source and the destination.
C19_TenAttempts ==
    pc = "copied" =>
        LET out == result.out
            n == result.hold.n
            copyable == result.seen \in {"lib", "junk"}
            sized == result.seen \in {"lib", "junk", "dir"}
        IN  /\ Attempts(out) <= CopyAttempts
            /\ out.ok <=> (copyable /\ n < CopyAttempts)
            /\ out.ok => /\ Attempts(out) = n + 1
                         /\ out.err = None
                         /\ out.content = result.seen
            /\ ~out.ok => /\ Attempts(out) = CopyAttempts
                          /\ out.err =
                                 Some([tag |-> "CopyTimeOut", name |-> None,
                                       src |-> Some(result.src),
                                       dest |-> Some(result.dest)])
            /\ out.copies =
                   (IF result.hold.as = "locked"
                    THEN IF n < Attempts(out) THEN n ELSE Attempts(out)
                    ELSE 0)
                   + (IF sized /\ n < Attempts(out) THEN Attempts(out) - n ELSE 0)

\* try_copy has succeeded at the 10th attempt, after 9 that found the source
\* empty.
C19_Witness ==
    /\ pc = "copied"
    /\ result.out.ok
    /\ result.out.sleeps = CopyAttempts - 1
    /\ result.hold.as = "empty"
    /\ result.out.copies = 1

\* C18: the handle of a Module is open as long as the host or the Registry
\* holds a reference to it, and a step closes a handle only if it takes the
\* last reference away: removing a Module from the Registry in a reload
\* leaves the handle open while the host holds a reference.
C18_HandleOutlivesHolders ==
    /\ [](held \cup Ids(libs) \subseteq live)
    /\ [][\A id \in live \ live' :
              /\ id \in held \cup Ids(libs)
              /\ id \notin held' \cup Ids(libs')]_vars

\* A reload has removed from the Registry a Module the host holds a
\* reference to, and its handle is open.
C18_Witness ==
    /\ pc = "load"
    /\ \E id \in held : id \notin Ids(libs) /\ id \in live
    /\ \E id \in 1..nextId : id \notin live

\* C13: two Modules without original_path are equal whatever they were
\* loaded from; a Module with one and a Module without are not; two with one
\* are equal exactly when it is the same path; loaded_path and the handle
\* make no difference, so a Module equals a clone of itself; != is the
\* opposite of ==.
C13_EqualByOriginalPath ==
    pc = "compared" =>
        LET a == result.a
            b == result.b
        IN  /\ (~IsSome(a.original_path) /\ ~IsSome(b.original_path)) => result.eq
            /\ (IsSome(a.original_path) # IsSome(b.original_path)) => ~result.eq
            /\ (IsSome(a.original_path) /\ IsSome(b.original_path)) =>
                   (result.eq <=>
                        /\ Parent(Unwrap(a.original_path)) =
                               Parent(Unwrap(b.original_path))
                        /\ FileName(Unwrap(a.original_path)) =
                               FileName(Unwrap(b.original_path)))
            /\ (a = b) => result.eq
            /\ result.ne <=> ~result.eq

\* Two Modules without original_path, loaded from different files with
\* different handles, have compared equal.
C13_Witness ==
    /\ pc = "compared"
    /\ result.eq
    /\ result.a.original_path = None
    /\ result.a.loaded_path # result.b.loaded_path
    /\ result.a.id # result.b.id

\* watch_recv' is watch_recv with notifications appended, or unchanged.
Extended == 
    /\ Len(watch_recv') >= Len(watch_recv)
    /\ SubSeq(watch_recv', 1, Len(watch_recv)) = watch_recv

\* The callback invoked last concerns the notification for path.
LastCallIsFor(log, path) ==
    LET c == log[Len(log)]
    IN  CASE c.state = "Before" ->
                 FileName(Unwrap(Unwrap(c.lib).original_path)) = FileName(path)
          [] c.state = "After" -> Unwrap(c.lib).original_path = Some(path)
          [] OTHER ->
                 Unwrap(c.err).tag = "CopyTimeOut" =>
                     Unwrap(c.err).src = Some(path)

\* C15: the channel only changes by a notification being appended or by
\* update taking the oldest one, which it then processes; while update
\* processes a notification it takes no other; and every callback is invoked
\* while, and for, the notification taken last is processed.
C15_NotificationsInOrder ==
    [][/\ watch_recv' # watch_recv =>
              \/ Extended
              \/ /\ pc = "recv"
                 /\ watch_recv # <<>>
                 /\ watch_recv' = Tail(watch_recv)
                 /\ Head(watch_recv).kind \in ReloadKinds =>
                        pc' = "scan" /\ cur' = Head(watch_recv).path
       /\ pc \in {"scan", "load"} => (cur' = cur /\ Extended)
       /\ Len(calls') > Len(calls) =>
              /\ pc \in {"scan", "load"}
              /\ Len(calls') = Len(calls) + 1
              /\ LastCallIsFor(calls', cur)]_vars

\* update processes a notification, has invoked callbacks for it and for an
\* earlier one in the same call, and a later notification waits.
C15_Witness ==
    /\ pc = "scan"
    /\ snap.from >= 2
    /\ Len(calls) > snap.from
    /\ watch_recv # <<>>

\* C16: a step of the watcher or of another process (it changes the debounce
\* table, the file system, or appends to the channel) changes nothing of the
\* instance but the channel and invokes no callback; the Registry changes
\* and callbacks are invoked only in a step of add_library or of update's
\* reload.
C16_WatcherOnlyEnqueues ==
    [][/\ (debouncing' # debouncing \/ fs' # fs
              \/ Len(watch_recv') > Len(watch_recv)) =>
              UNCHANGED <<libs, shadow_dir, search_paths, watches, nextId, pc,
                          cur, idx, calls, result, fired, held, live>>
       /\ (libs' # libs \/ Len(calls') > Len(calls) \/ fired' # fired) =>
              \/ pc = "idle" /\ pc' = "added"
              \/ pc \in {"scan", "load"}]_vars

\* The watcher has sent a notification and holds another back while update
\* is in the middle of a reload.
C16_Witness ==
    /\ pc = "load"
    /\ watch_recv # <<>>
    /\ \E p \in Files : debouncing[p] # "None"

\* The Modules of a Registry that a notification for path concerns.
Matching(registry, path) ==
    {l \in Range(registry) :
        /\ IsSome(l.original_path)
        /\ FileName(Unwrap(l.original_path)) = FileName(path)}

\* The Before callbacks of the notification being processed.
BeforesNow ==
    {k \in (snap.from + 1)..Len(calls) : calls[k].state = "Before"}

\* C20: while a notification is processed, Before has been invoked only for
\* Modules that were in the Registry when its processing began and have its
\* file name, and for none of them twice; when its processing ends, Before
\* has been invoked for every one of them.
C20_EachMatchOnce ==
    pc \in {"scan", "load"} =>
        /\ \A k \in BeforesNow :
               Unwrap(calls[k].lib) \in Matching(snap.libs, cur)
        /\ \A j, k \in BeforesNow : j # k => calls[j].lib # calls[k].lib
        /\ (pc = "scan" /\ idx = 0) =>
               {Unwrap(calls[k].lib) : k \in BeforesNow} =
                   Matching(snap.libs, cur)

\* The processing of a notification ends: the Registry had two Modules of
\* its file name, one of them registered from another directory, and one of
\* another name; one reload succeeded and one failed.
C20_Witness ==
    /\ pc = "scan"
    /\ idx = 0
    /\ Cardinality(Matching(snap.libs, cur)) = 2
    /\ Len(snap.libs) = 3
    /\ \E l \in Matching(snap.libs, cur) : l.original_path # Some(cur)
    /\ \E j, k \in (snap.from + 1)..Len(calls) :
           calls[j].state = "After" /\ calls[k].state = "ReloadFailed"

\* C17, as claimed: every update call returns, whatever the watcher
\* enqueues meanwhile.
C17_UpdateTerminates == (pc = "recv") ~> (pc = "idle")

\* What update does guarantee (C17): the processing of every notification
\* ends, and a call that never returns is one during which notifications are
\* enqueued again and again for ever.
UpdateReturnsUnlessFed ==
    /\ (pc \in {"scan", "load"}) ~> (pc = "recv")
    /\ \/ (pc = "recv") ~> (pc = "idle")
       \/ []<><<Len(watch_recv') > Len(watch_recv)>>_vars

\* update has processed two notifications in one call, a third waits and
\* the watcher holds back a fourth.
C17_Witness ==
    /\ pc = "recv"
    /\ Len(calls) >= 4
    /\ watch_recv # <<>>
    /\ debouncing[FileX1] # "None"

\* C21: Before is invoked with a Module that is in the Registry at that
\* moment; while the load is attempted that Module is out of the Registry,
\* which is one entry shorter than Before found it; After is invoked with
\* another Module, which is in the Registry at that moment, the Registry
\* being as long as Before found it; ReloadFailed is invoked with no Module
\* while the Registry is one entry shorter than Before found it.
C21_CallbacksSeeRegistrySteps ==
    /\ \A k \in 1..Len(calls) :
           /\ calls[k].state = "Before" => calls[k].inreg
           /\ calls[k].state = "After" =>
                  /\ calls[k].inreg
                  /\ k > 1
                  /\ calls[k - 1].state = "Before"
                  /\ calls[k].lib # calls[k - 1].lib
                  /\ calls[k].n = calls[k - 1].n
           /\ calls[k].state = "ReloadFailed" =>
                  /\ calls[k].lib = None
                  /\ ~calls[k].inreg
                  /\ k > 1
                  /\ calls[k - 1].state = "Before"
                  /\ calls[k].n = calls[k - 1].n - 1
    /\ pc = "load" =>
           /\ calls # <<>>
           /\ calls[Len(calls)].state = "Before"
           /\ Unwrap(calls[Len(calls)].lib) \notin Range(libs)
           /\ Len(libs) = calls[Len(calls)].n - 1

\* For one notification a reload of a Registry of three has succeeded, one
\* has failed, and the load of a third is being attempted.
C21_Witness ==
    /\ pc = "load"
    /\ Len(calls) = snap.from + 5
    /\ \E j, k \in (snap.from + 1)..Len(calls) :
           /\ calls[j].state = "After"
           /\ calls[j].n = 3
           /\ calls[k].state = "ReloadFailed"

\* C22: without a shadow dir every registered Module has no original_path,
\* add_library watches no directory, no callback is ever invoked and no load
\* is attempted by update, whatever notifications it receives, and no step of
\* update changes the Registry.
C22_NoStagingNoReload ==
    /\ [](shadow_dir = None =>
              /\ \A k \in 1..Len(libs) : libs[k].original_path = None
              /\ watches = {}
              /\ calls = <<>>
              /\ fired = [before |-> 0, after |-> 0]
              /\ pc # "load")
    /\ [][(shadow_dir = None /\ pc \in {"recv", "scan", "load"}) =>
              libs' = libs]_vars

\* update has gone through a write notification for the file one of two
\* unstaged Modules was loaded from, and further notifications wait.
C22_Witness ==
    /\ shadow_dir = None
    /\ pc = "scan"
    /\ idx = 0
    /\ Len(libs) = 2
    /\ cur = FileX1
    /\ \E k \in 1..Len(libs) : libs[k].loaded_path = FileX1
    /\ watch_recv # <<>>

\* C23: a step that takes a notification out of the channel takes the oldest
\* one, is a step of update, invokes no callback and leaves the Registry as
\* it is; if the kind is not NoticeWrite, Write or Create, update goes on to
\* the next notification at once; and while a notification whose file name
\* no registered Module has is processed, the Registry stays what it was, no
\* callback is invoked and no load is attempted.
C23_OtherNotificationsDropped ==
    /\ [][Len(watch_recv') < Len(watch_recv) =>
              /\ pc = "recv"
              /\ watch_recv' = Tail(watch_recv)
              /\ libs' = libs
              /\ calls' = calls
              /\ fired' = fired
              /\ nextId' = nextId
              /\ IF Head(watch_recv).kind \in ReloadKinds
                 THEN pc' = "scan" /\ cur' = Head(watch_recv).path
                 ELSE pc' = "recv"]_vars
    /\ []((pc \in {"scan", "load"} /\ Matching(snap.libs, cur) = {}) =>
              /\ pc = "scan"
              /\ libs = snap.libs
              /\ Len(calls) = snap.from)
    /\ [][(pc = "scan" /\ Matching(snap.libs, cur) = {}) =>
              (pc' \in {"scan", "recv"} /\ libs' = libs /\ calls' = calls)]_vars

\* update has gone through a write notification for a file name that no
\* registered Module has, after callbacks for an earlier notification, and
\* a Remove notification is the next to be received.
C23_Witness ==
    /\ pc = "scan"
    /\ idx = 0
    /\ libs # <<>>
    /\ \A k \in 1..Len(libs) : IsSome(libs[k].original_path)
    /\ Matching(snap.libs, cur) = {}
    /\ snap.from >= 2
    /\ watch_recv # <<>>
    /\ Head(watch_recv).kind = "Remove"

\* C24: if the host calls update again and again for ever, no notification
\* waits for ever: the channel is found empty again and again, or update
\* takes the oldest notification again and again, so that every one becomes
\* the oldest and is taken; and the channel loses none: it changes only by
\* notifications being appended or by update taking the oldest.
C24_EveryNotificationConsumed ==
    /\ ([]<><<pc = "idle" /\ pc' = "recv">>_vars) =>
           \/ []<>(watch_recv = <<>>)
           \/ []<><<pc = "recv" /\ watch_recv # <<>> /\
                     watch_recv' = Tail(watch_recv)>>_vars
    /\ [][watch_recv' # watch_recv =>
              \/ Extended
              \/ pc = "recv" /\ watch_recv # <<>> /\ watch_recv' = Tail(watch_recv)]_vars

\* update has returned on an empty channel after two reloads; the watcher
\* holds back nothing.
C24_Witness ==
    /\ pc = "idle"
    /\ watch_recv = <<>>
    /\ debouncing[FileX1] = "None"
    /\ fired.before >= 2
    /\ libs # <<>>

\* How often l occurs in a Registry.
Count(registry, l) == Cardinality({k \in 1..Len(registry) : registry[k] = l})

\* The Modules of a Registry that a notification for path does not concern.
NonMatching(registry, path) == Range(registry) \ Matching(registry, path)

\* C25: while a notification is processed and when its processing ends, the
\* Modules whose file name is not the notification's are those that were in
\* the Registry when the processing began, each as often as then and with
\* the same handle, still open, loaded_path and original_path.
C25_OthersStayRegistered ==
    pc \in {"scan", "load"} =>
        /\ NonMatching(libs, cur) = NonMatching(snap.libs, cur)
        /\ \A l \in NonMatching(snap.libs, cur) :
               /\ Count(libs, l) = Count(snap.libs, l)
               /\ l.id \in live

\* The processing of a notification ends after a successful and a failed
\* reload; a Module of another file name is still registered, at another
\* position than when the processing began.
C25_Witness ==
    /\ pc = "scan"
    /\ idx = 0
    /\ \E j, k \in (snap.from + 1)..Len(calls) :
           calls[j].state = "After" /\ calls[k].state = "ReloadFailed"
    /\ \E j \in 1..Len(libs), k \in 1..Len(snap.libs) :
           /\ libs[j] = snap.libs[k]
           /\ libs[j] \in NonMatching(snap.libs, cur)
           /\ j # k

\* C26: reload_libs never reads self.libs past its end and reload_lib never
\* removes past its end: the index about to be used is within the Registry
\* as it is now, also after failed reloads have made it shorter than it was
\* when the pass began, and the panic of an out-of-bounds index is never
\* reached.
C26_IndexInBounds ==
    /\ pc # "panic"
    /\ pc = "scan" => (0 <= idx /\ idx <= Len(libs))
    /\ pc = "load" => (1 <= idx /\ idx <= Len(libs) + 1)
    /\ pc \in {"scan", "load"} => idx <= Len(snap.libs)

\* reload_libs is about to read an entry; of three Modules of the
\* notification's file name two have failed to reload, so that the Registry is
\* two entries shorter than the length the pass began with.
C26_Witness ==
    /\ pc = "scan"
    /\ idx = 1
    /\ Cardinality(Matching(snap.libs, cur)) = 3
    /\ Len(snap.libs) = 3
    /\ Len(libs) = 1
    /\ Len(calls) = snap.from + 4

====
